---- MODULE Spec2Model ----
(***************************************************************************)
(* MurMur: the event buffer and the pattern-matching rule engine of        *)
(* src/main.py (EventCollector), with the callers that feed it.            *)
(*                                                                         *)
(* Time is modelled in whole seconds of time.time(), starting at a         *)
(* present-day value; a SystemEvent is a record with the dataclass's five  *)
(* fields; a Pattern is a record with the dataclass's six fields, its      *)
(* conditions a sequence of predicate tags and its action the name of the  *)
(* callable. A process name is the sequence of its characters.             *)
(*                                                                         *)
(* Four specifications share the state:                                    *)
(*   Spec      add_event calls executed one at a time (one caller), on the *)
(*             patterns of setup_murmur_patterns and on the same patterns  *)
(*             with small numbers;                                         *)
(*   SpecConc  the two monitor threads of __main__ on the patterns of      *)
(*             setup_murmur_patterns: each builds its events as            *)
(*             monitor_wifi and _check_process_health do, then calls       *)
(*             add_event without any lock, interleaved statement by        *)
(*             statement;                                                  *)
(*   SpecCap   one producer filling the buffer past its capacity;          *)
(*   SpecScenario  one pattern (window 300, threshold 2, cooldown 600)     *)
(*             and calls at the instants 0, 100, 150 and 700 of a clock    *)
(*             started at 0.                                               *)
(***************************************************************************)
EXTENDS Integers, Sequences, FiniteSets, TLC

VARIABLES
    events,         \* EventCollector.events: deque(maxlen=1000), oldest first
    state,          \* the deque's mutation counter (what its iterators compare)
    patterns,       \* EventCollector.patterns: list of Pattern, registration order
    last_triggers,  \* EventCollector.last_triggers: defaultdict(float)
    clock,          \* the value time.time() returns
    pc,             \* per thread: the statement of add_event it is at
    frame,          \* per thread: the locals of its add_event call
    raised,         \* history: the add_event calls that raised to their caller
    disconnection_count, \* NetworkMonitor.disconnection_count
    submitted,      \* history, per thread: the events it passed to add_event
    inserted,       \* history: every event passed to events.append, in order
    calls,          \* history: one record per add_event call of Spec and SpecCap
    firings,        \* history: one record per pattern.action() invocation
    last_connection_state, \* NetworkMonitor.last_connection_state
    prev_check,     \* history: what the previous connectivity check returned
    transitions,    \* history: the checks that found the connection newly down
    process_states, \* ProcessMonitor.process_states: the keys of the dict
    health_checks,  \* the _check_process_health calls made so far
    processes       \* _check_process_health: the processes its for loop has
                    \* still to handle, the one being handled first

vars == <<events, state, patterns, last_triggers, clock, pc, frame, raised,
          disconnection_count, submitted, inserted, calls, firings,
          last_connection_state, prev_check, transitions, process_states,
          health_checks, processes>>

----------------------------------------------------------------------------
(* Bounds of the model *)

\* add_event calls in one behaviour of Spec
MaxCalls == 2
\* last tick of the clock
MaxTime == 1
\* add_event calls in one behaviour of SpecConc, the two threads together
MaxConcCalls == 2
\* add_event calls past the buffer's capacity in one behaviour of SpecCap
MaxOverflow == 3
\* _check_process_health calls in one behaviour of SpecConc; a check
\* starts only while an add_event call of SpecConc is still allowed
MaxHealthChecks == 1

(* Program constants *)

\* deque(maxlen=1000)
maxlen == 1000

----------------------------------------------------------------------------
(* Helpers on sequences *)

Min(a, b) == IF a <= b THEN a ELSE b

\* the last n elements of s (all of s when it has fewer)
LastN(s, n) == SubSeq(s, Len(s) - Min(n, Len(s)) + 1, Len(s))

\* the elements of s, as a set
Range(s) == {s[i] : i \in 1..Len(s)}

----------------------------------------------------------------------------
(* SystemEvent and the predicates of the registered patterns *)

\* A process name is a str held as the sequence of its characters, so that
\* str.lower() is computed character by character.
ExplorerExe == <<"e", "x", "p", "l", "o", "r", "e", "r", ".", "e", "x", "e">>
DwmExe == <<"d", "w", "m", ".", "e", "x", "e">>
WinlogonExe == <<"w", "i", "n", "l", "o", "g", "o", "n", ".", "e", "x", "e">>

\* the upper-case ASCII letters and their lower-case forms
UpperCase == <<"A", "B", "C", "D", "E", "F", "G", "H", "I", "J", "K", "L", "M",
               "N", "O", "P", "Q", "R", "S", "T", "U", "V", "W", "X", "Y", "Z">>
LowerCase == <<"a", "b", "c", "d", "e", "f", "g", "h", "i", "j", "k", "l", "m",
               "n", "o", "p", "q", "r", "s", "t", "u", "v", "w", "x", "y", "z">>

\* the lower-case form of each upper-case letter
LowerOf ==
    [c \in Range(UpperCase) |->
        LowerCase[CHOOSE k \in 1..Len(UpperCase) : UpperCase[k] = c]]

\* str.lower() on one character (ASCII)
LowerChar(c) == IF c \in DOMAIN LowerOf THEN LowerOf[c] ELSE c

\* str.lower()
Lower(s) == [i \in 1..Len(s) |-> LowerChar(s[i])]

\* dict.get(key, default) on an event's data
DataGet(data, key, default) ==
    IF key \in DOMAIN data THEN data[key] ELSE default

\* One condition of a pattern applied to one event: the lambdas of
\* setup_murmur_patterns, by tag, and the predicate of the end-to-end
\* scenario's pattern (type == "disconnect").
Condition(tag, e) ==
    CASE tag = "type_network_disconnect" -> e.event_type = "network_disconnect"
      [] tag = "severity_ge_3" -> e.severity >= 3
      [] tag = "type_process_frozen" -> e.event_type = "process_frozen"
      [] tag = "process_name_explorer" ->
            Lower(DataGet(e.data, "process_name", <<>>)) = ExplorerExe
      [] tag = "type_disk_space_low_or_temp_files_corrupted" ->
            \/ e.event_type = "disk_space_low"
            \/ e.event_type = "temp_files_corrupted"
      [] tag = "type_disconnect" -> e.event_type = "disconnect"

AllConditionsAny(p, e) ==
    \E i \in 1..Len(p.conditions) : Condition(p.conditions[i], e)

\* all(condition(event) for condition in pattern.conditions)
AllConditions(p, e) ==
    \A i \in 1..Len(p.conditions) : Condition(p.conditions[i], e)

----------------------------------------------------------------------------
(* The buffer *)

DequeAppendNoEvict(d, e) == Append(d, e)

DequeAppendLeft(d, e) == IF Len(d) >= maxlen THEN d ELSE <<e>> \o d

\* deque(maxlen=...).append(e): when full, the oldest element is discarded
DequeAppend(d, e) ==
    IF Len(d) >= maxlen THEN Append(Tail(d), e) ELSE Append(d, e)

----------------------------------------------------------------------------
(* Pattern evaluation *)

InWindowStrict(e, now, p) == now - e.timestamp < p.time_window

\* the filter of the recent_events comprehension
InWindow(e, now, p) == now - e.timestamp <= p.time_window

\* recent_events = [e for e in self.events if current_time - e.timestamp <= w]
RecentEvents(evs, now, p) == SelectSeq(evs, LAMBDA e : InWindow(e, now, p))

\* matching_events of _pattern_matches
MatchingEvents(p, evs) == SelectSeq(evs, LAMBDA e : AllConditions(p, e))

PatternMatchesOnNewest(p, evs) ==
    /\ Len(MatchingEvents(p, evs)) >= p.threshold
    /\ evs # <<>> => AllConditions(p, evs[Len(evs)])

\* _pattern_matches: len(matching_events) >= pattern.threshold
PatternMatches(p, evs) == Len(MatchingEvents(p, evs)) >= p.threshold

\* self.last_triggers[name] on a defaultdict(float): a missing key is
\* inserted with 0.0 by the read
WithDefault(lt, name) ==
    IF name \in DOMAIN lt THEN lt
    ELSE [n \in DOMAIN lt \cup {name} |-> IF n = name THEN 0 ELSE lt[n]]

CooldownActiveNever(lt, p, now) == FALSE

\* the cooldown gate: current_time - self.last_triggers[pattern.name] < cooldown
CooldownActive(lt, p, now) ==
    now - WithDefault(lt, p.name)[p.name] < p.cooldown

RecordTriggerAll(lt, name, now) == [n \in DOMAIN lt \cup {name} |-> now]

\* self.last_triggers[pattern.name] = current_time
RecordTrigger(lt, name, now) ==
    [n \in DOMAIN lt \cup {name} |-> IF n = name THEN now ELSE lt[n]]

\* The outcomes of pattern.action() that _execute_fix distinguishes: it
\* returns, or it raises an Exception. FixEngine.restart_wifi catches
\* CalledProcessError only and may raise; FixEngine.restart_explorer
\* catches every Exception itself and always returns.
ActionOutcomes(action) ==
    IF action = "restart_wifi" THEN {"ok", "raise"} ELSE {"ok"}

\* one outcome for the action of each pattern of pats
OutcomeChoices(pats) ==
    {out \in [1..Len(pats) -> {"ok", "raise"}] :
        \A i \in 1..Len(pats) : out[i] \in ActionOutcomes(pats[i].action)}

ExecuteFixPropagates(outcome) == outcome = "raise"

\* _execute_fix: whether an exception of pattern.action() leaves it. The
\* try/except Exception catches what the action raises.
ExecuteFixRaises(outcome) == FALSE

\* The for loop of _analyze_patterns from pattern number i on, run without
\* interruption: lt is last_triggers so far, evs the buffer, now the
\* current_time read at the top, out the outcome of each pattern's action
\* if it is invoked. The result: the final last_triggers, the names whose
\* gate was open, the actions invoked (in order, with their outcome), and
\* whether an exception left the loop.
RECURSIVE AnalyzeFrom(_, _, _, _, _, _)
AnalyzeFrom(i, pats, lt, evs, now, out) ==
    IF i > Len(pats)
    THEN [lt |-> lt, gate |-> {}, fired |-> <<>>, raised |-> FALSE]
    ELSE
      LET p == pats[i]
          lt1 == WithDefault(lt, p.name)
      IN
      IF CooldownActive(lt, p, now)
      THEN AnalyzeFrom(i + 1, pats, lt1, evs, now, out)
      ELSE
        IF PatternMatches(p, RecentEvents(evs, now, p))
        THEN
          LET inv == [name |-> p.name, ok |-> out[i] = "ok"] IN
          IF ExecuteFixRaises(out[i])
          THEN [lt |-> lt1, gate |-> {p.name}, fired |-> <<inv>>,
                raised |-> TRUE]
          ELSE
            LET rest == AnalyzeFrom(i + 1, pats,
                                    RecordTrigger(lt1, p.name, now),
                                    evs, now, out)
            IN [lt |-> rest.lt, gate |-> {p.name} \cup rest.gate,
                fired |-> <<inv>> \o rest.fired, raised |-> rest.raised]
        ELSE
          LET rest == AnalyzeFrom(i + 1, pats, lt1, evs, now, out)
          IN [rest EXCEPT !.gate = {p.name} \cup rest.gate]

\* _analyze_patterns: current_time = time.time(), then the loop
AnalyzePatterns(pats, lt, evs, now, out) ==
    AnalyzeFrom(1, pats, lt, evs, now, out)

----------------------------------------------------------------------------
(* The inputs *)

\* wifi_pattern of setup_murmur_patterns, its numbers as parameters
WifiPattern(w, k, cd) ==
    [name |-> "wifi_instability",
     conditions |-> <<"type_network_disconnect", "severity_ge_3">>,
     time_window |-> w, threshold |-> k,
     action |-> "restart_wifi", cooldown |-> cd]

\* explorer_pattern of setup_murmur_patterns, its numbers as parameters
ExplorerPattern(w, k, cd) ==
    [name |-> "explorer_freeze",
     conditions |-> <<"type_process_frozen", "process_name_explorer">>,
     time_window |-> w, threshold |-> k,
     action |-> "restart_explorer", cooldown |-> cd]

\* temp_cleanup_pattern of setup_murmur_patterns, its numbers as parameters
TempPattern(w, k, cd) ==
    [name |-> "temp_files_cleanup",
     conditions |-> <<"type_disk_space_low_or_temp_files_corrupted">>,
     time_window |-> w, threshold |-> k,
     action |-> "clear_temp_files", cooldown |-> cd]

\* The numbers of the three patterns a run registers, for each pattern
\* <<time_window, threshold, cooldown>> in seconds: the numbers written in
\* setup_murmur_patterns, and two lists of small numbers
PatternParameters ==
    {<<<<300, 2, 600>>, <<60, 1, 300>>, <<3600, 1, 7200>>>>,
     <<<<0, 1, 1>>, <<1, 1, 1>>, <<1, 1, 2>>>>,
     <<<<1, 2, 2>>, <<1, 1, 1>>, <<1, 1, 2>>>>}

\* collector.patterns after setup_murmur_patterns(collector), in seconds
RegisteredPatterns ==
    <<WifiPattern(300, 2, 600), ExplorerPattern(60, 1, 300),
      TempPattern(3600, 1, 7200)>>

\* The registered lists of a run: the three patterns of
\* setup_murmur_patterns in its order, with each list of numbers
PatternLists ==
    {<<WifiPattern(x[1][1], x[1][2], x[1][3]),
       ExplorerPattern(x[2][1], x[2][2], x[2][3]),
       TempPattern(x[3][1], x[3][2], x[3][3])>> : x \in PatternParameters}

\* The event NetworkMonitor.monitor_wifi builds
DisconnectEvent(ts, n) ==
    [timestamp |-> ts, event_type |-> "network_disconnect",
     source |-> "wifi_monitor", data |-> [disconnect_count |-> n],
     severity |-> 3]

\* critical_processes of ProcessMonitor.monitor_critical_processes
CriticalProcesses == <<ExplorerExe, DwmExe, WinlogonExe>>

\* The pids of the processes psutil.process_iter reports under one name,
\* in the order it yields them
Pids == <<4242, 4243, 4244>>

\* The values of proc.info['cpu_percent']: 0.0, and a value that is not
CpuPercents == {0, 25}

\* The lists `processes` of _check_process_health that are not empty: the
\* processes whose lowered name is the lowered process_name
ProcessLists ==
    UNION {{[j \in 1..n |-> [pid |-> Pids[j], cpu_percent |-> c[j]]] :
                c \in [1..n -> CpuPercents]} : n \in 1..Len(Pids)}

\* The process_frozen event ProcessMonitor._check_process_health builds
FrozenEvent(ts, name, pid) ==
    [timestamp |-> ts, event_type |-> "process_frozen",
     source |-> "process_monitor",
     data |-> [process_name |-> name, pid |-> pid],
     severity |-> 4]

\* The process_missing event ProcessMonitor._check_process_health builds
MissingEvent(ts, name) ==
    [timestamp |-> ts, event_type |-> "process_missing",
     source |-> "process_monitor", data |-> [process_name |-> name],
     severity |-> 5]

\* How many ticks before the add_event call an event was stamped
Lags == {0, 1}

\* The well-formed events a caller may pass at time now: stamped by the
\* caller at most a tick before add_event reads the clock; a frozen
\* process is the first of Pids
EventsAt(now, n) ==
    LET lags == {l \in Lags : l <= now} IN
    {DisconnectEvent(now - l, n) : l \in lags}
    \cup {FrozenEvent(now - l, CriticalProcesses[j], Pids[1]) :
              l \in lags, j \in 1..Len(CriticalProcesses)}
    \cup {MissingEvent(now - l, CriticalProcesses[j]) :
              l \in lags, j \in 1..Len(CriticalProcesses)}

\* What time.time() returns when the collector is constructed: seconds
\* since the epoch, a present-day value
StartTime == 1700000000

----------------------------------------------------------------------------
(* Spec: add_event calls executed one at a time *)

Threads == {"network_thread", "process_thread"}

IdleFrame == [event |-> <<>>, call |-> 0, current_time |-> 0, i |-> 0,
              it_state |-> 0]

Init ==
    /\ events = <<>>
    /\ state = 0
    /\ patterns \in PatternLists
    /\ last_triggers = <<>>
    /\ clock = StartTime
    /\ pc = [t \in Threads |-> "idle"]
    /\ frame = [t \in Threads |-> IdleFrame]
    /\ raised = {}
    /\ disconnection_count = 0
    /\ submitted = [t \in Threads |-> <<>>]
    /\ inserted = <<>>
    /\ calls = <<>>
    /\ firings = <<>>
    /\ last_connection_state = TRUE
    /\ prev_check = TRUE
    /\ transitions = 0
    /\ process_states = {}
    /\ health_checks = 0
    /\ processes = <<>>

\* time passes
Tick ==
    /\ clock < StartTime + MaxTime
    /\ clock' = clock + 1
    /\ UNCHANGED <<events, state, patterns, last_triggers, pc, frame, raised,
                   disconnection_count, submitted, inserted, calls, firings,
                   last_connection_state, prev_check, transitions,
                   process_states, health_checks, processes>>

\* The records of firings for the actions invoked by call number c at now
FiringRecords(fired, now, c) ==
    [j \in 1..Len(fired) |->
        [name |-> fired[j].name, now |-> now, call |-> c, ok |-> fired[j].ok]]

\* add_event(e), whole: the append, then _analyze_patterns
add_event(e, out) ==
    LET evs == DequeAppend(events, e)
        c == Len(inserted) + 1
        r == AnalyzePatterns(patterns, last_triggers, evs, clock, out)
    IN
    /\ events' = evs
    /\ state' = state + 1
    /\ last_triggers' = r.lt
    /\ inserted' = Append(inserted, e)
    /\ calls' = Append(calls, [now |-> clock, gate |-> r.gate,
                               fired |-> [j \in 1..Len(r.fired) |-> r.fired[j].name]])
    /\ firings' = firings \o FiringRecords(r.fired, clock, c)
    /\ raised' = IF r.raised THEN raised \cup {c} ELSE raised
    /\ UNCHANGED <<patterns, clock, pc, frame, disconnection_count, submitted,
                   last_connection_state, prev_check, transitions,
                   process_states, health_checks, processes>>

AddEvent ==
    /\ Len(inserted) < MaxCalls
    /\ \E e \in EventsAt(clock, Len(inserted) + 1) :
       \E out \in OutcomeChoices(patterns) :
          add_event(e, out)

Next == Tick \/ AddEvent

Spec == Init /\ [][Next]_vars

----------------------------------------------------------------------------
(* What the histories say, independently of the engine's own operators *)

\* the registered pattern called name
PatternNamed(name) == CHOOSE p \in Range(patterns) : p.name = name

\* the buffer that call number c evaluated: the retained part of what had
\* been inserted up to and including its own event
BufferAt(c) == LastN(SubSeq(inserted, 1, c), maxlen)

\* whether call number c invoked the action of the pattern called name
FiredIn(c, name) == \E j \in 1..Len(calls[c].fired) : calls[c].fired[j] = name

\* the evaluation time of the last firing of name in a call before call c,
\* 0 when there is none
PrevTrigger(name, c) ==
    LET before == {i \in 1..Len(firings) :
                      firings[i].name = name /\ firings[i].call < c}
    IN IF before = {} THEN 0
       ELSE firings[CHOOSE i \in before : \A k \in before : k <= i].now

\* events of buf that satisfy every condition of p and are no older than
\* now - p.time_window
InWindowMatches(p, buf, now) ==
    {i \in 1..Len(buf) :
        /\ now - buf[i].timestamp <= p.time_window
        /\ \A k \in 1..Len(p.conditions) : Condition(p.conditions[k], buf[i])}

\* events of buf that satisfy every condition of p, whatever their age
AllMatches(p, buf) ==
    {i \in 1..Len(buf) :
        \A k \in 1..Len(p.conditions) : Condition(p.conditions[k], buf[i])}

----------------------------------------------------------------------------
(* C1: cooldown suppression *)

\* C1: with add_event calls executed one at a time, once a pattern has
\* fired in a call evaluated at T, no later call evaluated at now < T +
\* cooldown invokes that pattern's action.
C1_CooldownSuppression ==
    \A i \in 1..Len(firings) : \A c \in 1..Len(calls) :
        (/\ c > firings[i].call
         /\ calls[c].now < firings[i].now + PatternNamed(firings[i].name).cooldown)
        => ~FiredIn(c, firings[i].name)

\* a pattern fired, and the latest call, inside the cooldown, found the
\* threshold met in the window and did not fire it
C1_Witness ==
    \E i \in 1..Len(firings) :
        LET p == PatternNamed(firings[i].name)
            c == Len(calls)
        IN /\ c > firings[i].call
           /\ calls[c].now < firings[i].now + p.cooldown
           /\ Cardinality(InWindowMatches(p, BufferAt(c), calls[c].now)) >= p.threshold
           /\ ~FiredIn(c, p.name)

----------------------------------------------------------------------------
(* C6: isolation across patterns *)

\* pattern number j is eligible in call c on its own account: its gate is
\* open given its own earlier firings, and the threshold is met
Eligible(j, c) ==
    LET q == patterns[j] IN
    /\ calls[c].now - PrevTrigger(q.name, c) >= q.cooldown
    /\ Cardinality(InWindowMatches(q, BufferAt(c), calls[c].now)) >= q.threshold

\* the action of pattern number i was invoked in call c and raised
RaisedIn(i, c) ==
    \E f \in 1..Len(firings) :
        /\ firings[f].call = c
        /\ firings[f].name = patterns[i].name
        /\ ~firings[f].ok

\* C6: if pattern A's action raises in an add_event call and a pattern B
\* registered after A is eligible in that call, B's action is invoked in the
\* same call and B's last-firing timestamp is recorded; the failure changes
\* neither the buffer nor the cooldown entry of a pattern that did not fire.
C6_IsolationAcrossPatterns ==
    LET c == Len(calls) IN
    \A i \in 1..Len(patterns) :
        (c > 0 /\ RaisedIn(i, c)) =>
            /\ c \notin raised
            /\ events = BufferAt(c)
            /\ \A j \in (i + 1)..Len(patterns) :
                  LET q == patterns[j] IN
                  /\ Eligible(j, c) =>
                        /\ FiredIn(c, q.name)
                        /\ last_triggers[q.name] = calls[c].now
                  /\ ~Eligible(j, c) =>
                        /\ ~FiredIn(c, q.name)
                        /\ last_triggers[q.name] = PrevTrigger(q.name, c)

\* the first pattern's action raised in the latest call and the second
\* pattern, eligible, was fired by the same call
C6_Witness ==
    LET c == Len(calls) IN
    /\ c > 0
    /\ RaisedIn(1, c)
    /\ Eligible(2, c)
    /\ FiredIn(c, patterns[2].name)

----------------------------------------------------------------------------
(* C7: the cooldown starts at the attempt *)

\* C7: when a firing pattern's action raises, the pattern's last-firing
\* timestamp is still set to the evaluation time of that call, and no later
\* call evaluated before that time + cooldown invokes the action again.
C7_CooldownStartsAtAttempt ==
    \A f \in 1..Len(firings) :
        ~firings[f].ok =>
            LET name == firings[f].name
                p == PatternNamed(name)
            IN
            /\ firings[f].call = Len(calls) =>
                  /\ name \in DOMAIN last_triggers
                  /\ last_triggers[name] = firings[f].now
            /\ \A c \in (firings[f].call + 1)..Len(calls) :
                  calls[c].now < firings[f].now + p.cooldown
                      => ~FiredIn(c, name)

\* an action raised at T > 0 with a cooldown running, and a later call
\* inside the cooldown met the threshold without invoking it again
C7_Witness ==
    \E f \in 1..Len(firings) :
        LET p == PatternNamed(firings[f].name)
            c == Len(calls)
        IN /\ ~firings[f].ok
           /\ firings[f].now > 0
           /\ c > firings[f].call
           /\ calls[c].now < firings[f].now + p.cooldown
           /\ Cardinality(InWindowMatches(p, BufferAt(c), calls[c].now)) >= p.threshold
           /\ ~FiredIn(c, p.name)
           /\ last_triggers[p.name] = firings[f].now

----------------------------------------------------------------------------
(* C8: window exclusion *)

\* C8: in every pattern evaluation, an event older than now - time_window
\* is not counted toward the threshold even if it satisfies the conditions,
\* and every retained event with now - timestamp <= time_window is a
\* candidate (the boundary is inclusive).
C8_WindowExclusion ==
    \A c \in 1..Len(calls) : \A j \in 1..Len(patterns) :
        LET p == patterns[j]
            now == calls[c].now
            buf == BufferAt(c)
            young == {i \in AllMatches(p, buf) :
                         buf[i].timestamp >= now - p.time_window}
        IN /\ FiredIn(c, p.name) => Cardinality(young) >= p.threshold
           /\ (p.name \in calls[c].gate /\ Cardinality(young) >= p.threshold)
                 => FiredIn(c, p.name)

\* the latest call evaluated a pattern whose gate was open on a buffer with
\* enough matching events, one exactly time_window old and one older: the
\* older one was not counted and the pattern did not fire
C8_Witness ==
    LET c == Len(calls) IN
    /\ c > 0
    /\ \E j \in 1..Len(patterns) :
          LET p == patterns[j]
              now == calls[c].now
              buf == BufferAt(c)
          IN /\ p.name \in calls[c].gate
             /\ Cardinality(AllMatches(p, buf)) >= p.threshold
             /\ \E i \in AllMatches(p, buf) : now - buf[i].timestamp = p.time_window
             /\ \E i \in AllMatches(p, buf) : now - buf[i].timestamp > p.time_window
             /\ ~FiredIn(c, p.name)

----------------------------------------------------------------------------
(* C9: predicate conjunction *)

\* events of buf in p's window that satisfy at least one condition of p
\* and not all of them
PartialMatches(p, buf, now) ==
    {i \in 1..Len(buf) :
        /\ now - buf[i].timestamp <= p.time_window
        /\ \E k \in 1..Len(p.conditions) : Condition(p.conditions[k], buf[i])
        /\ \E k \in 1..Len(p.conditions) : ~Condition(p.conditions[k], buf[i])}

\* C9: a pattern's match count contains exactly the in-window events for
\* which every condition is true: a pattern fires only on threshold or more
\* such events, so events satisfying only one of two predicates never make
\* it fire.
C9_PredicateConjunction ==
    \A c \in 1..Len(calls) : \A j \in 1..Len(patterns) :
        LET p == patterns[j]
            both == InWindowMatches(p, BufferAt(c), calls[c].now)
        IN /\ FiredIn(c, p.name) => Cardinality(both) >= p.threshold
           /\ (p.name \in calls[c].gate /\ ~FiredIn(c, p.name))
                 => Cardinality(both) < p.threshold

\* the latest call evaluated a two-predicate pattern, gate open, on a
\* buffer holding threshold or more in-window events that satisfy one
\* predicate only, and did not fire it
C9_Witness ==
    LET c == Len(calls) IN
    /\ c > 0
    /\ \E j \in 1..Len(patterns) :
          LET p == patterns[j] IN
          /\ Len(p.conditions) = 2
          /\ p.name \in calls[c].gate
          /\ Cardinality(PartialMatches(p, BufferAt(c), calls[c].now)) >= p.threshold
          /\ p.threshold >= 2
          /\ ~FiredIn(c, p.name)

----------------------------------------------------------------------------
(* SpecCap: one registered pattern, add_event calls executed one at a    *)
(* time, and one producer filling the buffer past its capacity           *)

\* Registered lists whose threshold is at the buffer's capacity and past it
BurstPatternLists ==
    {<<WifiPattern(0, k, cd)>> : k \in {maxlen, maxlen + 1}, cd \in {0, 1}}

\* The registered lists of SpecCap: one pattern, the wifi pattern with each
\* list of numbers and with the thresholds at the capacity
CapPatternLists ==
    {<<WifiPattern(x[1][1], x[1][2], x[1][3])>> : x \in PatternParameters}
    \cup BurstPatternLists

\* SpecCap starts from the constructed collector with one pattern registered
InitCap ==
    /\ events = <<>>
    /\ state = 0
    /\ patterns \in CapPatternLists
    /\ last_triggers = <<>>
    /\ clock = StartTime
    /\ pc = [t \in Threads |-> "idle"]
    /\ frame = [t \in Threads |-> IdleFrame]
    /\ raised = {}
    /\ disconnection_count = 0
    /\ submitted = [t \in Threads |-> <<>>]
    /\ inserted = <<>>
    /\ calls = <<>>
    /\ firings = <<>>
    /\ last_connection_state = TRUE
    /\ prev_check = TRUE
    /\ transitions = 0
    /\ process_states = {}
    /\ health_checks = 0
    /\ processes = <<>>

\* add_event called directly, again and again, by one caller that passes
\* network_disconnect events numbered 1, 2, ..., all stamped and inserted
\* within the last tick, the actions succeeding: up to MaxOverflow calls
\* past the capacity. No monitor is involved: the fields of NetworkMonitor
\* stay as they are.
Burst ==
    /\ patterns \in BurstPatternLists
    /\ clock = StartTime + MaxTime
    /\ Len(inserted) < maxlen + MaxOverflow
    /\ inserted = [i \in 1..Len(inserted) |-> DisconnectEvent(clock, i)]
    /\ add_event(DisconnectEvent(clock, Len(inserted) + 1),
                 [i \in 1..Len(patterns) |-> "ok"])

NextCap == Tick \/ AddEvent \/ Burst

SpecCap == InitCap /\ [][NextCap]_vars

----------------------------------------------------------------------------
(* C5: buffer boundedness *)

\* C5: the buffer never holds more than maxlen events, and holds the most
\* recently inserted ones in insertion order: all of them up to maxlen
\* insertions, exactly the last maxlen after that (the oldest evicted
\* first).
C5_BufferBoundedness ==
    /\ Len(events) <= maxlen
    /\ Len(inserted) > maxlen => Len(events) = maxlen
    /\ \A i \in 1..Len(events) :
          events[i] = inserted[Len(inserted) - Len(events) + i]

\* more than maxlen + 1 events were inserted: the two oldest are gone and
\* the buffer starts at the third
C5_Witness ==
    /\ Len(inserted) = maxlen + 2
    /\ Len(events) = maxlen
    /\ events[1] = inserted[3]
    /\ events[1] # inserted[1]
    /\ events[maxlen] = inserted[maxlen + 2]

----------------------------------------------------------------------------
(* C2: threshold correctness *)

\* the smallest timestamp among the events inserted
OldestTimestamp ==
    CHOOSE t \in {inserted[i].timestamp : i \in 1..Len(inserted)} :
        \A i \in 1..Len(inserted) : t <= inserted[i].timestamp

\* the firings of the pattern called name
FiringsOf(name) == {f \in 1..Len(firings) : firings[f].name = name}

\* The case of C2 for pattern p: the engine has received only events that
\* satisfy every condition of p, every call was evaluated within
\* p.time_window of the oldest event's timestamp, there are at most
\* p.threshold of them, and no cooldown was in effect at any of the calls:
\* p had not fired before the call, or its firings lay at least p.cooldown
\* back (a pattern that never fired has no cooldown in effect).
ThresholdCase(p) ==
    LET oldest == OldestTimestamp IN
    /\ Len(inserted) > 0
    /\ Len(inserted) <= p.threshold
    /\ Len(calls) = Len(inserted)
    /\ \A i \in 1..Len(inserted) :
          \A k \in 1..Len(p.conditions) : Condition(p.conditions[k], inserted[i])
    /\ \A c \in 1..Len(calls) : calls[c].now - oldest <= p.time_window
    /\ \A c \in 1..Len(calls) : \A f \in FiringsOf(p.name) :
          firings[f].call < c => calls[c].now - firings[f].now >= p.cooldown

\* what C2 promises of pattern p in its case: nothing fired before the
\* threshold-th insertion, and exactly one firing, by the threshold-th
\* call, once threshold events are in
ThresholdPromise(p) ==
    /\ Len(inserted) < p.threshold => FiringsOf(p.name) = {}
    /\ Len(inserted) = p.threshold =>
          /\ Cardinality(FiringsOf(p.name)) = 1
          /\ \A f \in FiringsOf(p.name) : firings[f].call = p.threshold

\* C2: for a registered pattern with threshold k and time_window w and no
\* cooldown in effect, k events that satisfy every condition, all
\* evaluated within w of the oldest event's timestamp, invoke the action
\* exactly once, in the k-th add_event call, and k-1 of them invoke it zero
\* times.
C2_ThresholdAsStated ==
    \A j \in 1..Len(patterns) :
        ThresholdCase(patterns[j]) => ThresholdPromise(patterns[j])

----------------------------------------------------------------------------
(* SpecConc: the two monitor threads of __main__ call add_event on the    *)
(* shared collector. EventCollector takes no lock: a thread may be        *)
(* preempted between any two statements of add_event and                  *)
(* _analyze_patterns. deque.append and one step of a deque iterator are   *)
(* each atomic; an iterator raises RuntimeError when the deque was        *)
(* mutated after the iterator was created.                                *)

\* The registered list of SpecConc: what setup_murmur_patterns registers
ConcPatternLists == {RegisteredPatterns}

\* source of the events a thread builds
SourceOf(t) ==
    IF t = "network_thread" THEN "wifi_monitor" ELSE "process_monitor"

InitConc ==
    /\ events = <<>>
    /\ state = 0
    /\ patterns \in ConcPatternLists
    /\ last_triggers = <<>>
    /\ clock = StartTime + MaxTime - 1
    /\ pc = [t \in Threads |-> "idle"]
    /\ frame = [t \in Threads |-> IdleFrame]
    /\ raised = {}
    /\ disconnection_count = 0
    /\ submitted = [t \in Threads |-> <<>>]
    /\ inserted = <<>>
    /\ calls = <<>>
    /\ firings = <<>>
    /\ last_connection_state = TRUE
    /\ prev_check = TRUE
    /\ transitions = 0
    /\ process_states = {}
    /\ health_checks = 0
    /\ processes = <<>>

\* the pattern thread t is evaluating
Current(t) == patterns[frame[t].i]

\* add_event returns to, or raises into, the monitor loop of thread t
Leave(t) ==
    /\ pc' = [pc EXCEPT ![t] = "idle"]
    /\ frame' = [frame EXCEPT ![t] = IdleFrame]

\* An exception leaves add_event in thread t. In _check_process_health the
\* except clause catches it, prints and the function ends: the rest of the
\* for loop over processes is dropped. In monitor_wifi the except clause
\* of the loop catches it.
RaiseFrom(t) ==
    /\ Leave(t)
    /\ processes' = IF t = "process_thread" THEN <<>> ELSE processes

\* One turn of monitor_wifi's loop that submits nothing: the check returns
\* True, or False with last_connection_state already False; then
\* self.last_connection_state = current_state
Check ==
    /\ pc["network_thread"] = "idle"
    /\ \E current_state \in BOOLEAN :
          /\ ~(~current_state /\ last_connection_state)
          /\ last_connection_state' = current_state
          /\ prev_check' = current_state
          /\ transitions' =
                IF ~current_state /\ prev_check THEN transitions + 1
                ELSE transitions
    /\ UNCHANGED <<events, state, patterns, last_triggers, clock, pc, frame,
                   raised, disconnection_count, submitted, inserted, calls,
                   firings, process_states, health_checks, processes>>

\* monitor_wifi finds the connection newly down: the check returns False
\* while last_connection_state is True, disconnection_count is
\* incremented and the event is built, stamped with time.time(). The call
\* of add_event is the thread's next statement.
Disconnect ==
    /\ pc["network_thread"] = "idle"
    /\ last_connection_state
    /\ disconnection_count' = disconnection_count + 1
    /\ frame' = [frame EXCEPT !["network_thread"] =
                    [IdleFrame EXCEPT
                        !.event = DisconnectEvent(clock, disconnection_count + 1)]]
    /\ pc' = [pc EXCEPT !["network_thread"] = "call"]
    /\ prev_check' = FALSE
    /\ transitions' = IF prev_check THEN transitions + 1 ELSE transitions
    /\ UNCHANGED <<events, state, patterns, last_triggers, clock, raised,
                   submitted, inserted, calls, firings, last_connection_state,
                   process_states, health_checks, processes>>

\* the process the for loop of monitor_critical_processes checks next
NextProcess ==
    CriticalProcesses[(health_checks % Len(CriticalProcesses)) + 1]

\* the process whose _check_process_health call is under way
CheckedProcess ==
    CriticalProcesses[((health_checks - 1) % Len(CriticalProcesses)) + 1]

\* The for loop of _check_process_health over the processes ps, run until
\* it builds a process_frozen event or ends. An iteration whose process
\* has cpu_percent 0.0 while process_name is in process_states builds the
\* event (frozen, ps keeps that process first); any other iteration sets
\* process_states[process_name] and goes on.
RECURSIVE HealthLoop(_, _, _)
HealthLoop(ps, states, name) ==
    IF ps = <<>>
    THEN [frozen |-> FALSE, processes |-> <<>>, process_states |-> states]
    ELSE IF Head(ps).cpu_percent = 0 /\ name \in states
         THEN [frozen |-> TRUE, processes |-> ps, process_states |-> states]
         ELSE HealthLoop(Tail(ps), states \cup {name}, name)

\* _check_process_health(process_name) raises before its for loop: building
\* the list of processes raises (psutil.process_iter raises, or a listed
\* process has info['name'] None). The except clause prints and the
\* function ends: no event, process_states not written.
CheckRaises ==
    /\ pc["process_thread"] = "idle"
    /\ health_checks < MaxHealthChecks
    /\ Len(inserted) < MaxConcCalls
    /\ health_checks' = health_checks + 1
    /\ UNCHANGED <<events, state, patterns, last_triggers, clock, pc, frame,
                   raised, disconnection_count, submitted, inserted, calls,
                   firings, last_connection_state, prev_check, transitions,
                   process_states, processes>>

\* _check_process_health(process_name) when psutil reports processes of
\* that name and the for loop builds no event: no process has cpu_percent
\* 0.0 with process_name in process_states when its iteration runs. Every
\* iteration sets process_states[process_name].
Healthy ==
    /\ pc["process_thread"] = "idle"
    /\ health_checks < MaxHealthChecks
    /\ Len(inserted) < MaxConcCalls
    /\ health_checks' = health_checks + 1
    /\ \E ps \in ProcessLists :
          LET r == HealthLoop(ps, process_states, NextProcess) IN
          /\ ~r.frozen
          /\ process_states' = r.process_states
    /\ UNCHANGED <<events, state, patterns, last_triggers, clock, pc, frame,
                   raised, disconnection_count, submitted, inserted, calls,
                   firings, last_connection_state, prev_check, transitions,
                   processes>>

\* _check_process_health(process_name) when psutil reports no process of
\* that name: the process_missing event is built, stamped with
\* time.time(). The call of add_event is the thread's next statement; the
\* function returns after it, process_states untouched.
Missing ==
    /\ pc["process_thread"] = "idle"
    /\ health_checks < MaxHealthChecks
    /\ Len(inserted) < MaxConcCalls
    /\ health_checks' = health_checks + 1
    /\ frame' = [frame EXCEPT !["process_thread"] =
                    [IdleFrame EXCEPT !.event = MissingEvent(clock, NextProcess)]]
    /\ pc' = [pc EXCEPT !["process_thread"] = "call"]
    /\ UNCHANGED <<events, state, patterns, last_triggers, clock, raised,
                   disconnection_count, submitted, inserted, calls, firings,
                   last_connection_state, prev_check, transitions,
                   process_states, processes>>

\* _check_process_health(process_name) when psutil reports processes of
\* that name and the for loop reaches a process with cpu_percent 0.0 while
\* process_name is in process_states (from an earlier check, or from an
\* earlier iteration of this loop): the iterations before it have set
\* process_states[process_name], the process_frozen event is built with
\* the pid of that process, stamped with time.time(). The call of
\* add_event is the thread's next statement; the loop goes on after it.
Frozen ==
    /\ pc["process_thread"] = "idle"
    /\ health_checks < MaxHealthChecks
    /\ Len(inserted) < MaxConcCalls
    /\ health_checks' = health_checks + 1
    /\ \E ps \in ProcessLists :
          LET r == HealthLoop(ps, process_states, NextProcess) IN
          /\ r.frozen
          /\ process_states' = r.process_states
          /\ processes' = r.processes
          /\ frame' = [frame EXCEPT !["process_thread"] =
                          [IdleFrame EXCEPT
                              !.event = FrozenEvent(clock, NextProcess,
                                                    Head(r.processes).pid)]]
    /\ pc' = [pc EXCEPT !["process_thread"] = "call"]
    /\ UNCHANGED <<events, state, patterns, last_triggers, clock, raised,
                   disconnection_count, submitted, inserted, calls, firings,
                   last_connection_state, prev_check, transitions>>

\* self.collector.add_event(event) is called with the event the monitor
\* built, and executes self.events.append(event)
CallAppend(t) ==
    /\ pc[t] = "call"
    /\ Len(inserted) < MaxConcCalls
    /\ LET e == frame[t].event IN
       /\ events' = DequeAppend(events, e)
       /\ state' = state + 1
       /\ inserted' = Append(inserted, e)
       /\ submitted' = [submitted EXCEPT ![t] = Append(@, e)]
    /\ frame' = [frame EXCEPT ![t].call = Len(inserted) + 1]
    /\ pc' = [pc EXCEPT ![t] = "read_time"]
    /\ UNCHANGED <<patterns, last_triggers, clock, raised,
                   disconnection_count, calls, firings,
                   last_connection_state, prev_check, transitions,
                   process_states, health_checks, processes>>

\* current_time = time.time()
ReadTime(t) ==
    /\ pc[t] = "read_time"
    /\ frame' = [frame EXCEPT ![t].current_time = clock, ![t].i = 1]
    /\ pc' = [pc EXCEPT ![t] = "gate"]
    /\ UNCHANGED <<events, state, patterns, last_triggers, clock, raised,
                   disconnection_count, submitted, inserted, calls, firings,
                   last_connection_state, prev_check, transitions,
                   process_states, health_checks, processes>>

\* the for loop is exhausted: _analyze_patterns and add_event return, and
\* the monitor runs on to its next stop.
\* In monitor_wifi the statement after the call runs:
\* self.last_connection_state = current_state, current_state being False
\* on this path. (When add_event raises instead, the except clause of the
\* loop skips that statement.)
\* In _check_process_health, after a process_missing event the function
\* returns. After a process_frozen event process_states[process_name] is
\* set and the for loop goes on with the processes left: it builds the
\* next process_frozen event, stamped with time.time(), whose add_event
\* call is the thread's next statement, or it ends.
Return(t) ==
    /\ pc[t] = "gate"
    /\ frame[t].i > Len(patterns)
    /\ IF t = "process_thread" /\ processes # <<>>
       THEN LET r == HealthLoop(Tail(processes),
                                process_states \cup {CheckedProcess},
                                CheckedProcess)
            IN /\ process_states' = r.process_states
               /\ processes' = r.processes
               /\ IF r.frozen
                  THEN /\ frame' = [frame EXCEPT ![t] =
                                      [IdleFrame EXCEPT
                                          !.event = FrozenEvent(clock, CheckedProcess,
                                                                Head(r.processes).pid)]]
                       /\ pc' = [pc EXCEPT ![t] = "call"]
                  ELSE Leave(t)
       ELSE /\ Leave(t)
            /\ UNCHANGED <<process_states, processes>>
    /\ last_connection_state' =
          IF t = "network_thread" THEN FALSE ELSE last_connection_state
    /\ UNCHANGED <<events, state, patterns, last_triggers, clock, raised,
                   disconnection_count, submitted, inserted, calls, firings,
                   prev_check, transitions, health_checks>>

\* the cooldown gate of the next pattern: the read of last_triggers
\* inserts a missing key; continue when the cooldown is active
Gate(t) ==
    /\ pc[t] = "gate"
    /\ frame[t].i <= Len(patterns)
    /\ last_triggers' = WithDefault(last_triggers, Current(t).name)
    /\ IF CooldownActive(last_triggers, Current(t), frame[t].current_time)
       THEN /\ frame' = [frame EXCEPT ![t].i = @ + 1]
            /\ pc' = pc
       ELSE /\ frame' = frame
            /\ pc' = [pc EXCEPT ![t] = "iter"]
    /\ UNCHANGED <<events, state, patterns, clock, raised,
                   disconnection_count, submitted, inserted, calls, firings,
                   last_connection_state, prev_check, transitions,
                   process_states, health_checks, processes>>

\* the comprehension creates its iterator over self.events, which notes
\* the deque's mutation counter
Iter(t) ==
    /\ pc[t] = "iter"
    /\ frame' = [frame EXCEPT ![t].it_state = state]
    /\ pc' = [pc EXCEPT ![t] = "scan"]
    /\ UNCHANGED <<events, state, patterns, last_triggers, clock, raised,
                   disconnection_count, submitted, inserted, calls, firings,
                   last_connection_state, prev_check, transitions,
                   process_states, health_checks, processes>>

\* whether the deque was mutated since thread t's iterator was created
ScanMutated(t) == state # frame[t].it_state

\* The iteration runs to its end. If the deque was appended to meanwhile,
\* the iterator raises RuntimeError, which nothing catches: it leaves
\* _analyze_patterns and add_event. Otherwise recent_events is built and
\* _pattern_matches decides.
Scan(t) ==
    /\ pc[t] = "scan"
    /\ IF ScanMutated(t)
       THEN /\ raised' = raised \cup {frame[t].call}
            /\ RaiseFrom(t)
       ELSE /\ raised' = raised
            /\ processes' = processes
            /\ IF PatternMatches(Current(t),
                      RecentEvents(events, frame[t].current_time, Current(t)))
               THEN /\ frame' = frame
                    /\ pc' = [pc EXCEPT ![t] = "fix"]
               ELSE /\ frame' = [frame EXCEPT ![t].i = @ + 1]
                    /\ pc' = [pc EXCEPT ![t] = "gate"]
    /\ UNCHANGED <<events, state, patterns, last_triggers, clock,
                   disconnection_count, submitted, inserted, calls, firings,
                   last_connection_state, prev_check, transitions,
                   process_states, health_checks>>

\* self._execute_fix(pattern): pattern.action() is invoked
Fix(t) ==
    /\ pc[t] = "fix"
    /\ \E outcome \in ActionOutcomes(Current(t).action) :
          /\ firings' = Append(firings,
                [name |-> Current(t).name, now |-> frame[t].current_time,
                 call |-> frame[t].call, ok |-> outcome = "ok"])
          /\ IF ExecuteFixRaises(outcome)
             THEN /\ raised' = raised \cup {frame[t].call}
                  /\ RaiseFrom(t)
             ELSE /\ raised' = raised
                  /\ processes' = processes
                  /\ frame' = frame
                  /\ pc' = [pc EXCEPT ![t] = "record"]
    /\ UNCHANGED <<events, state, patterns, last_triggers, clock,
                   disconnection_count, submitted, inserted, calls,
                   last_connection_state, prev_check, transitions,
                   process_states, health_checks>>

\* self.last_triggers[pattern.name] = current_time
Record(t) ==
    /\ pc[t] = "record"
    /\ last_triggers' =
          RecordTrigger(last_triggers, Current(t).name, frame[t].current_time)
    /\ frame' = [frame EXCEPT ![t].i = @ + 1]
    /\ pc' = [pc EXCEPT ![t] = "gate"]
    /\ UNCHANGED <<events, state, patterns, clock, raised,
                   disconnection_count, submitted, inserted, calls, firings,
                   last_connection_state, prev_check, transitions,
                   process_states, health_checks, processes>>

NextConc ==
    \/ Tick
    \/ Check
    \/ Disconnect
    \/ CheckRaises
    \/ Healthy
    \/ Missing
    \/ Frozen
    \/ \E t \in Threads :
          \/ CallAppend(t)
          \/ ReadTime(t)
          \/ Gate(t)
          \/ Iter(t)
          \/ Scan(t)
          \/ Fix(t)
          \/ Record(t)
          \/ Return(t)

SpecConc == InitConc /\ [][NextConc]_vars

----------------------------------------------------------------------------
(* C3: atomicity of the firing decision and the cooldown update *)

\* C3: when producers call add_event concurrently, no two add_event calls
\* both invoke the same pattern's action within one cooldown period
\* (cooldown > 0), as in every single-threaded ordering of the calls.
C3_AtomicFiringDecision ==
    \A f \in 1..Len(firings) : \A g \in 1..Len(firings) :
        LET p == PatternNamed(firings[f].name) IN
        (f < g /\ firings[g].name = firings[f].name /\ p.cooldown > 0)
            => \/ firings[g].now - firings[f].now >= p.cooldown
               \/ firings[f].now - firings[g].now >= p.cooldown

----------------------------------------------------------------------------
(* C4: add_event never raises *)

\* C4: add_event never raises to its caller, in every interleaving of
\* concurrent add_event calls and whatever the pattern actions do.
C4_AddEventNeverRaises == raised = {}

----------------------------------------------------------------------------
(* C10: concurrent insertions *)

\* the events thread t has passed to add_event, all threads together
TotalSubmitted ==
    Len(submitted["network_thread"]) + Len(submitted["process_thread"])

\* the retained events that thread t inserted, in buffer order
RetainedOf(t) == SelectSeq(events, LAMBDA e : e.source = SourceOf(t))

\* C10: concurrent producers' calls result in exactly one insertion per
\* call: the buffer holds min(maxlen, number of calls) events, no event
\* lost or duplicated, and each producer's events appear in the order it
\* inserted them (the buffer is an interleaving of the producers' calls, up
\* to eviction of the oldest).
C10_ConcurrentInsertions ==
    /\ Len(events) = Min(maxlen, TotalSubmitted)
    /\ state = TotalSubmitted
    /\ \A t \in Threads :
          /\ RetainedOf(t) = LastN(submitted[t], Len(RetainedOf(t)))
          /\ TotalSubmitted <= maxlen => Len(RetainedOf(t)) = Len(submitted[t])

\* both threads are inside add_event at once and the buffer holds the
\* events of both, the one stamped later inserted first
C10_Witness ==
    /\ \A t \in Threads :
          pc[t] \notin {"idle", "call"} /\ Len(submitted[t]) = 1
    /\ Len(events) = 2
    /\ events[1].source # events[2].source
    /\ events[1].timestamp > events[2].timestamp

----------------------------------------------------------------------------
(* SpecScenario: the end-to-end scenario, one pattern net_flap bound to a  *)
(* counting action, add_event calls executed one at a time at the          *)
(* scenario's instants                                                     *)

\* add_event calls in one behaviour of SpecScenario
MaxScenarioCalls == 4

\* the instants (seconds) at which the scenario evaluates add_event
ScenarioTimes == <<0, 100, 150, 700>>

\* Pattern(name="net_flap", conditions=[type == "disconnect"],
\* time_window=300, threshold=2, action=<counting stub>, cooldown=600)
NetFlapPattern ==
    [name |-> "net_flap", conditions |-> <<"type_disconnect">>,
     time_window |-> 300, threshold |-> 2,
     action |-> "counting_stub", cooldown |-> 600]

\* SystemEvent(timestamp=ts, event_type="disconnect", ...)
ScenarioEvent(ts) ==
    [timestamp |-> ts, event_type |-> "disconnect", source |-> "probe",
     data |-> <<>>, severity |-> 1]

\* SystemEvent(timestamp=ts, event_type="connect", ...)
OtherEvent(ts) ==
    [timestamp |-> ts, event_type |-> "connect", source |-> "probe",
     data |-> <<>>, severity |-> 1]

InitScenario ==
    /\ events = <<>>
    /\ state = 0
    /\ patterns = <<NetFlapPattern>>
    /\ last_triggers = <<>>
    /\ clock = ScenarioTimes[1]
    /\ pc = [t \in Threads |-> "idle"]
    /\ frame = [t \in Threads |-> IdleFrame]
    /\ raised = {}
    /\ disconnection_count = 0
    /\ submitted = [t \in Threads |-> <<>>]
    /\ inserted = <<>>
    /\ calls = <<>>
    /\ firings = <<>>
    /\ last_connection_state = TRUE
    /\ prev_check = TRUE
    /\ transitions = 0
    /\ process_states = {}
    /\ health_checks = 0
    /\ processes = <<>>

\* time passes, to a later instant of the scenario
Advance ==
    /\ \E k \in 1..Len(ScenarioTimes) :
          /\ ScenarioTimes[k] > clock
          /\ clock' = ScenarioTimes[k]
    /\ UNCHANGED <<events, state, patterns, last_triggers, pc, frame, raised,
                   disconnection_count, submitted, inserted, calls, firings,
                   last_connection_state, prev_check, transitions,
                   process_states, health_checks, processes>>

\* add_event of an event stamped now; the counting action returns
ScenarioAddEvent ==
    /\ Len(inserted) < MaxScenarioCalls
    /\ \E e \in {ScenarioEvent(clock), OtherEvent(clock)} :
          add_event(e, <<"ok">>)

NextScenario == Advance \/ ScenarioAddEvent

SpecScenario == InitScenario /\ [][NextScenario]_vars

----------------------------------------------------------------------------
(* C11: the end-to-end scenario *)

\* the scenario so far: the first n of its disconnect events, and nothing
\* else, were passed to add_event, each evaluated at its own instant
ScenarioPrefix(n) ==
    /\ Len(calls) = n
    /\ Len(inserted) = n
    /\ \A c \in 1..n :
          /\ calls[c].now = ScenarioTimes[c]
          /\ inserted[c] = ScenarioEvent(ScenarioTimes[c])

\* the counting action's counter
Counter == Cardinality(FiringsOf("net_flap"))

\* C11: on a fresh engine with the one pattern net_flap (time_window 300,
\* threshold 2, cooldown 600), disconnect events evaluated at t=0 and t=100
\* leave the counter at 1, the action invoked by the call at t=100; a third
\* at t=150 leaves it at 1; a fourth at t=700 leaves it at 1.
C11_EndToEndScenario ==
    /\ ScenarioPrefix(1) => Counter = 0
    /\ ScenarioPrefix(2) => Counter = 1 /\ FiredIn(2, "net_flap")
    /\ ScenarioPrefix(3) => Counter = 1
    /\ ScenarioPrefix(4) => Counter = 1

----------------------------------------------------------------------------
(* C12: the gate of a pattern that has never fired *)

\* whether the action of the pattern called name was invoked in a call
\* before call number c
FiredBefore(name, c) ==
    \E f \in 1..Len(firings) : firings[f].name = name /\ firings[f].call < c

\* C12: for a pattern that has never fired, the cooldown gate is open
\* whatever the evaluation time (also when now < cooldown) and whatever the
\* cooldown: the pattern is not skipped, and it fires as soon as the
\* threshold is met.
C12_NeverFiredGateOpen ==
    \A c \in 1..Len(calls) : \A j \in 1..Len(patterns) :
        LET p == patterns[j] IN
        ~FiredBefore(p.name, c) =>
            /\ p.name \in calls[c].gate
            /\ Cardinality(InWindowMatches(p, BufferAt(c), calls[c].now))
                  >= p.threshold => FiredIn(c, p.name)

----------------------------------------------------------------------------
(* C13: the entries of the last-firing map *)

\* C13: in every reachable state the last-firing map has an entry for a
\* pattern name only if that pattern's action has been invoked at least
\* once (an evaluation in which the pattern did not fire adds none), and it
\* has at most one entry per name, all of registered patterns.
C13_EntriesOnlyAfterInvocation ==
    /\ \A name \in DOMAIN last_triggers : FiringsOf(name) # {}
    /\ DOMAIN last_triggers \subseteq {patterns[j].name : j \in 1..Len(patterns)}

----------------------------------------------------------------------------
(* C14: registration order within one call *)

\* the position of the pattern called name in the registered list
PatternIndex(name) == CHOOSE j \in 1..Len(patterns) : patterns[j].name = name

\* the action invocations of call number c, in the order they were made
FiringsIn(c) == SelectSeq(firings, LAMBDA f : f.call = c)

\* C14: within one add_event call the actions are invoked in registration
\* order, all at the call's one evaluation time, several patterns may fire,
\* and whether a pattern fires depends only on the buffer and on its own
\* earlier firings, not on another pattern's firing in the same call.
C14_RegistrationOrder ==
    \A c \in 1..Len(calls) :
        LET fs == FiringsIn(c) IN
        /\ Len(fs) = Len(calls[c].fired)
        /\ \A a \in 1..Len(fs) :
              /\ fs[a].name = calls[c].fired[a]
              /\ fs[a].now = calls[c].now
        /\ \A a \in 1..Len(fs) : \A b \in 1..Len(fs) :
              a < b => PatternIndex(fs[a].name) < PatternIndex(fs[b].name)
        /\ \A j \in 1..Len(patterns) :
              FiredIn(c, patterns[j].name) <=> Eligible(j, c)

\* the latest call invoked the actions of both registered patterns, the
\* first registered first, after an earlier call had fired one of them
C14_Witness ==
    LET c == Len(calls) IN
    /\ c > 1
    /\ Len(FiringsIn(c)) = 2
    /\ FiringsIn(c)[1].name = patterns[1].name
    /\ FiringsIn(c)[2].name = patterns[2].name
    /\ Len(firings) > 2

----------------------------------------------------------------------------
(* C15: when a pattern fires *)

\* how many times call number c invoked the action of the pattern called
\* name
InvocationsIn(c, name) ==
    Cardinality({f \in 1..Len(firings) :
                    firings[f].call = c /\ firings[f].name = name})

\* C15: in every add_event call and for every registered pattern, the
\* action is invoked exactly once in that call if the cooldown gate is open
\* (now minus the time of the pattern's last firing, 0.0 when it has none,
\* is at least the cooldown) and the retained in-window events satisfying
\* all its conditions number threshold or more, and not at all otherwise,
\* whether or not the event just inserted satisfies the pattern.
C15_FiresIffGateAndThreshold ==
    \A c \in 1..Len(calls) : \A j \in 1..Len(patterns) :
        LET p == patterns[j]
            open == calls[c].now - PrevTrigger(p.name, c) >= p.cooldown
            count == Cardinality(InWindowMatches(p, BufferAt(c), calls[c].now))
        IN InvocationsIn(c, p.name) =
              IF open /\ count >= p.threshold THEN 1 ELSE 0

\* the latest call inserted an event that does not satisfy a pattern whose
\* earlier matching events still met the threshold, and fired that pattern
C15_Witness ==
    LET c == Len(calls) IN
    /\ c > 1
    /\ \E j \in 1..Len(patterns) :
          LET p == patterns[j] IN
          /\ ~(\A k \in 1..Len(p.conditions) :
                  Condition(p.conditions[k], inserted[c]))
          /\ InvocationsIn(c, p.name) = 1
          /\ FiredBefore(p.name, c)

----------------------------------------------------------------------------
(* C16: an event counted toward two firings *)

\* the inserted events (by insertion number) that call number c counted
\* for pattern p: retained, in the window at the call's time, satisfying
\* every condition
Counted(c, p) ==
    {i \in 1..c :
        /\ i > c - maxlen
        /\ calls[c].now - inserted[i].timestamp <= p.time_window
        /\ \A k \in 1..Len(p.conditions) : Condition(p.conditions[k], inserted[i])}

\* C16: with add_event calls executed one at a time, a clock that never
\* goes back and events stamped no later than their insertion, two
\* different firings of a pattern whose cooldown exceeds its time_window
\* never count the same event.
C16_EventCountedOnce ==
    \A f \in 1..Len(firings) : \A g \in 1..Len(firings) :
        LET p == PatternNamed(firings[f].name) IN
        (/\ f < g
         /\ firings[g].name = firings[f].name
         /\ p.cooldown > p.time_window)
        => Counted(firings[f].call, p) \cap Counted(firings[g].call, p) = {}

\* a pattern with cooldown > time_window fired twice, each firing counting
\* an event, and no event counted by both
C16_Witness ==
    \E f \in 1..Len(firings) : \E g \in 1..Len(firings) :
        LET p == PatternNamed(firings[f].name) IN
        /\ f < g
        /\ firings[g].name = firings[f].name
        /\ p.cooldown > p.time_window
        /\ Counted(firings[f].call, p) # {}
        /\ Counted(firings[g].call, p) # {}
        /\ Len(inserted) > Cardinality(Counted(firings[g].call, p))

----------------------------------------------------------------------------
(* C17: the last-firing timestamp never decreases *)

\* C17: with a clock that never goes back, the recorded last-firing
\* timestamp of a pattern never decreases, in every interleaving of
\* concurrent add_event calls, each of which reads its own current_time
\* before evaluating and writes it after its action returns.
C17_LastFiringNeverDecreases ==
    [][\A name \in DOMAIN last_triggers :
          /\ name \in DOMAIN last_triggers'
          /\ last_triggers'[name] >= last_triggers[name]]_vars

----------------------------------------------------------------------------
(* C18: the network probe is edge-triggered *)

\* the disconnect events the probe has built: those it has passed to
\* add_event, and the one it is about to pass
ProbeBuilt ==
    Len(submitted["network_thread"])
        + (IF pc["network_thread"] = "call" THEN 1 ELSE 0)

\* C18: over any sequence of connectivity checks the network probe has
\* called add_event with a network_disconnect event exactly once per
\* connected-to-disconnected transition the checks have shown (none while
\* the connection stays down or up), and disconnection_count equals the
\* number of disconnect events it has submitted (counting the one built and
\* about to be submitted), also when add_event raises inside the loop.
C18_ProbeEdgeTriggered ==
    /\ ProbeBuilt = transitions
    /\ disconnection_count = ProbeBuilt
    /\ \A i \in 1..Len(submitted["network_thread"]) :
          submitted["network_thread"][i].event_type = "network_disconnect"

====
